---- MODULE Spec2Model ----
(***************************************************************************)
(* Storage-access layer of lobster (src/lobster/se.py): the StorageElement *)
(* registry/dispatcher, its backends and the StorageConfiguration; and the *)
(* task issuer SimpleJobProvider (src/lobster/job.py).                     *)
(*                                                                         *)
(* Python strings are modelled as sequences of one-character strings, so   *)
(* that os.path.join, str.replace and the URL regular expressions are      *)
(* computed character by character, as the interpreter computes them.      *)
(***************************************************************************)
EXTENDS Integers, Sequences, FiniteSets, Bags, TLC

\* ------------------------------------------------------------- bounds
\* Deepest nesting of `with handle.default():` blocks one thread may hold.
MaxNest == 1
\* Largest config['max'] of a SimpleJobProvider.
MaxTasks == 3
\* Largest num a caller passes to obtain.
MaxNum == 2
\* Most tasks that are handed to release over a run.
MaxReleased == 3

\* ------------------------------------------------------------- characters
Lower == {"a","b","c","d","e","f","g","h","i","j","k","l","m",
          "n","o","p","q","r","s","t","u","v","w","x","y","z"}
Upper == {"A","B","C","D","E","F","G","H","I","J","K","L","M",
          "N","O","P","Q","R","S","T","U","V","W","X","Y","Z"}
Digit == {"0","1","2","3","4","5","6","7","8","9"}
Punct == {"/", ":", ".", "-", "_", "?", "=", "\\", "$", "(", ")", "*", "+", "'", " "}
Chars == Lower \cup Upper \cup Digit \cup Punct

\* ------------------------------------------------------------- str methods
\* p occurs in s at position i (1-based)
OccursAt(s, p, i) ==
    /\ i >= 1
    /\ i + Len(p) - 1 <= Len(s)
    /\ \A k \in 1..Len(p) : s[i + k - 1] = p[k]

\* str.startswith / str.endswith
startswith(s, p) == OccursAt(s, p, 1)
endswith(s, p) == Len(p) <= Len(s) /\ OccursAt(s, p, Len(s) - Len(p) + 1)

\* str.find, 1-based; 0 when p does not occur in s
find(s, p) ==
    IF \E i \in 1..(Len(s) + 1) : OccursAt(s, p, i)
    THEN CHOOSE i \in 1..(Len(s) + 1) :
            /\ OccursAt(s, p, i)
            /\ \A j \in 1..(i - 1) : ~OccursAt(s, p, j)
    ELSE 0

\* p in s
contains(s, p) == find(s, p) # 0

\* s.replace(old, '', 1): the first occurrence of old is removed
replace_first(s, old) ==
    LET i == find(s, old)
    IN  IF i = 0 THEN s
        ELSE SubSeq(s, 1, i - 1) \o SubSeq(s, i + Len(old), Len(s))

\* s[n:] for n >= 0
slice_from(s, n) == SubSeq(s, n + 1, Len(s))

\* length of the longest prefix of s whose characters all lie in cls
RunLength(s, cls) ==
    CHOOSE n \in 0..Len(s) :
        /\ \A k \in 1..n : s[k] \in cls
        /\ (n < Len(s) => s[n + 1] \notin cls)

\* os.path.join(a, b) of posixpath
join(a, b) ==
    IF startswith(b, <<"/">>) THEN b
    ELSE IF a = <<>> \/ endswith(a, <<"/">>) THEN a \o b
    ELSE a \o <<"/">> \o b

\* ------------------------------------------------------------- URLs
\* StorageConfiguration.__url_re = ^([a-z]+)://([^/]*)(.*)/?$
\* Every quantifier is greedy: the protocol is the longest lower-case run,
\* the server the longest run without '/', and (.*) takes all that is left,
\* so the optional trailing '/' of the pattern always matches the empty string.
url_re(url) ==
    LET n    == RunLength(url, Lower)
        rest == slice_from(url, n + 3)
        m    == RunLength(rest, Chars \ {"/"})
    IN  IF n >= 1 /\ OccursAt(url, <<":", "/", "/">>, n + 1)
        THEN [matched |-> TRUE,
              protocol |-> SubSeq(url, 1, n),
              server |-> SubSeq(rest, 1, m),
              path |-> slice_from(rest, m)]
        ELSE [matched |-> FALSE, protocol |-> <<>>, server |-> <<>>, path |-> <<>>]

\* StorageConfiguration.__site_re = ^T[0123]_(?:[A-Z]{2}_)?[A-Za-z0-9_\-]+$
\* The optional country code consists of characters of the final class, so the
\* pattern matches exactly T, a tier digit, '_' and one or more class characters.
site_re(server) ==
    /\ Len(server) >= 4
    /\ server[1] = "T"
    /\ server[2] \in {"0", "1", "2", "3"}
    /\ server[3] = "_"
    /\ \A k \in 4..Len(server) : server[k] \in Lower \cup Upper \cup Digit \cup {"_", "-"}

\* StorageConfiguration.__protocols
protocols == [p \in {<<"s","r","m">>, <<"r","o","o","t">>} |->
                 IF p = <<"s","r","m">> THEN <<"s","r","m","v","2">>
                 ELSE <<"x","r","o","o","t","d">>]

\* The rule file /cvmfs/cms.cern.ch/SITECONF/<site>/PhEDEx/storage.xml, as far as
\* the docstring of _find_match documents it: site T3_US_NotreDame has one
\* lfn-to-pfn rule, for protocol xrootd, with path-match /+store/(.*) and
\* result root://xrootd.unl.edu//store/$1 . A rule is kept as the literal that
\* follows '/+' in its path-match and the text that precedes $1 in its result.
NotreDame == <<"T","3","_","U","S","_","N","o","t","r","e","D","a","m","e">>
StoreLit == <<"s","t","o","r","e","/">>
SITECONF ==
    [site \in {NotreDame} |->
        << [protocol |-> <<"x","r","o","o","t","d">>,
            literal  |-> StoreLit,
            head     |-> <<"r","o","o","t",":","/","/","x","r","o","o","t","d",".",
                           "u","n","l",".","e","d","u","/","/">> \o StoreLit] >>]

\* first position of path at which /+<literal> matches; 0 if there is none
rule_search(literal, path) ==
    LET hit(i) == /\ path[i] = "/"
                  /\ \E k \in i..Len(path) :
                        /\ \A j \in i..k : path[j] = "/"
                        /\ OccursAt(path, literal, k + 1)
    IN  IF \E i \in 1..Len(path) : hit(i)
        THEN CHOOSE i \in 1..Len(path) : hit(i) /\ \A j \in 1..(i - 1) : ~hit(j)
        ELSE 0

\* re.match(path-match, path): the rule's pattern matches at the start of path
rule_match(literal, path) == rule_search(literal, path) = 1

\* re.sub(path-match, result, path): the leftmost match, which runs to the end
\* of path because of (.*), is replaced by the result with \1 filled in
rule_sub(rule, path) ==
    LET i == rule_search(rule.literal, path)
        k == CHOOSE k \in i..Len(path) :
                /\ \A j \in i..k : path[j] = "/"
                /\ OccursAt(path, rule.literal, k + 1)
    IN  IF i = 0 THEN path
        ELSE SubSeq(path, 1, i - 1) \o rule.head
                \o slice_from(path, k + Len(rule.literal))

\* StorageConfiguration._find_match: the first rule of the site's file with the
\* asked protocol whose path-match matches a non-empty path.
\* Result: [found, rule]; found = FALSE is the AttributeError "No match found".
_find_match(protocol, site, path) ==
    LET rules == IF site \in DOMAIN SITECONF THEN SITECONF[site] ELSE <<>>
        ok(e) == /\ e.protocol = protocol
                 /\ (Len(path) > 0 => rule_match(e.literal, path))
        idx   == {i \in 1..Len(rules) : ok(rules[i])}
    IN  IF idx = {} THEN [found |-> FALSE, rule |-> [protocol |-> <<>>, literal |-> <<>>, head |-> <<>>]]
        ELSE [found |-> TRUE, rule |-> rules[CHOOSE i \in idx : \A j \in idx : i <= j]]

\* StorageConfiguration._expand_site
\* Result: [raised, url]; raised covers a URL the grammar does not match and a
\* site without a matching rule.
_expand_site(url) ==
    LET m == url_re(url)
    IN  IF ~m.matched THEN [raised |-> TRUE, url |-> <<>>]
        ELSE IF site_re(m.server) /\ m.protocol \in DOMAIN protocols
        THEN LET f == _find_match(protocols[m.protocol], m.server, m.path)
             IN  IF f.found THEN [raised |-> FALSE, url |-> rule_sub(f.rule, m.path)]
                 ELSE [raised |-> TRUE, url |-> <<>>]
        ELSE [raised |-> FALSE,
              url |-> m.protocol \o <<":", "/", "/">> \o m.server \o m.path \o <<"/">>]

\* ------------------------------------------------------------- values
\* What a backend method hands back: a bool, an int, None, a str, a list of
\* str, or a generator (whose body runs, and may raise, only when consumed).
VBool(x) == [t |-> "bool", b |-> x,     n |-> 0, s |-> <<>>, l |-> <<>>, err |-> FALSE]
VInt(x)  == [t |-> "int",  b |-> FALSE, n |-> x, s |-> <<>>, l |-> <<>>, err |-> FALSE]
VStr(x)  == [t |-> "str",  b |-> FALSE, n |-> 0, s |-> x,    l |-> <<>>, err |-> FALSE]
VList(x) == [t |-> "list", b |-> FALSE, n |-> 0, s |-> <<>>, l |-> x,    err |-> FALSE]
VGen(x, e) == [t |-> "gen", b |-> FALSE, n |-> 0, s |-> <<>>, l |-> x,   err |-> e]
None == [t |-> "none", b |-> FALSE, n |-> 0, s |-> <<>>, l |-> <<>>, err |-> FALSE]

\* An outcome of a call: it raised, or it returned value
Raise == [raised |-> TRUE, value |-> None]
Return(v) == [raised |-> FALSE, value |-> v]

\* ------------------------------------------------------------- registry
\* A backend instance: its class, its _pfnprefix, the chirp server it talks
\* to, and whether construction got as far as creating the chirp client.
Backend(cls, pfnprefix, server, client) ==
    [cls |-> cls, _pfnprefix |-> pfnprefix, server |-> server, client |-> client]

\* StorageElement.lfn2pfn
lfn2pfn(self, path) ==
    IF startswith(path, <<"/">>)
    THEN join(self._pfnprefix, slice_from(path, 1))
    ELSE join(self._pfnprefix, path)

\* StorageElement.fixresult.pfn2lfn
pfn2lfn(self, p) == replace_first(p, self._pfnprefix)

\* StorageElement.fixresult: a str is converted, an iterable is consumed and
\* converted element by element (Python 2 map builds the list at once, so a
\* generator that raises does so here), anything else is handed back as it is.
fixresult(self, res) ==
    IF res.t = "str" THEN Return(VStr(pfn2lfn(self, res.s)))
    ELSE IF res.t = "list"
    THEN Return(VList([i \in 1..Len(res.l) |-> pfn2lfn(self, res.l[i])]))
    ELSE IF res.t = "gen"
    THEN IF res.err THEN Raise
         ELSE Return(VList([i \in 1..Len(res.l) |-> pfn2lfn(self, res.l[i])]))
    ELSE Return(res)

\* ------------------------------------------------------------- storage
\* The contents of one storage system: the files and the directories it
\* holds, each named by its path components. The root always exists.
\* A backend method below gets the path it is called with and, as k, the
\* entry that path names in its storage system.

\* the components of a path: split at '/', empty components dropped
Comps(p) ==
    LET starts == {i \in 1..Len(p) : p[i] # "/" /\ (i = 1 \/ p[i - 1] = "/")}
        stop(i) == CHOOSE j \in i..Len(p) :
                      /\ \A k \in i..j : p[k] # "/"
                      /\ (j = Len(p) \/ p[j + 1] = "/")
        nth(n) == CHOOSE i \in starts : Cardinality({j \in starts : j < i}) = n - 1
    IN  [n \in 1..Cardinality(starts) |-> SubSeq(p, nth(n), stop(nth(n)))]

ns_exists(ns, k) == k = <<>> \/ k \in ns.files \/ k \in ns.dirs
ns_isdir(ns, k) == k = <<>> \/ k \in ns.dirs
ns_isfile(ns, k) == k \in ns.files
ns_children(ns, k) ==
    {q \in ns.files \cup ns.dirs : Len(q) = Len(k) + 1 /\ SubSeq(q, 1, Len(k)) = k}
ns_prefixes(k) == {SubSeq(k, 1, i) : i \in 1..Len(k)}

\* removing an entry removes what lies below it as well
ns_remove_tree(ns, k) ==
    [files |-> {q \in ns.files : ~(Len(q) >= Len(k) /\ SubSeq(q, 1, Len(k)) = k)},
     dirs  |-> {q \in ns.dirs : ~(Len(q) >= Len(k) /\ SubSeq(q, 1, Len(k)) = k)}]

\* the elements of S in some order, or in the reverse of it
Ordered(S, rev) ==
    LET f == CHOOSE g \in [1..Cardinality(S) -> S] :
                \A i, j \in 1..Cardinality(S) : i # j => g[i] # g[j]
    IN  [i \in 1..Cardinality(S) |-> IF rev THEN f[Cardinality(S) + 1 - i] ELSE f[i]]

\* the entries of a directory in the order the storage system lists them
Listing(ns, k, rev) == Ordered(ns_children(ns, k), rev)

\* last component of an entry, as the name a listing reports
basename(k) == k[Len(k)]

\* [os.path.join(path, name) for each listed entry]
joined(path, names) == [i \in 1..Len(names) |-> join(path, basename(names[i]))]

\* the absolute path string of an entry
RECURSIVE PathStr(_)
PathStr(k) == IF k = <<>> THEN <<>> ELSE <<"/">> \o Head(k) \o PathStr(Tail(k))

\* str(n) for n >= 0
DigitChar == <<"0","1","2","3","4","5","6","7","8","9">>
RECURSIVE Str(_)
Str(n) == IF n < Len(DigitChar) THEN <<DigitChar[n + 1]>>
          ELSE Str(n \div Len(DigitChar)) \o <<DigitChar[(n % Len(DigitChar)) + 1]>>

\* Result of one backend method: the outcome, and the storage afterwards
Res(out, ns) == [out |-> out, ns |-> ns]

\* ------------------------------------------------------------- Local
\* os.path.exists / os.path.getsize / guarded os.path.isdir, os.path.isfile /
\* os.makedirs / os.remove as bound in Local.__init__, and Local.ls
Local_exists(ns, k) == Res(Return(VBool(ns_exists(ns, k))), ns)

Local_getsize(ns, k, env) ==
    IF ns_exists(ns, k) THEN Res(Return(VInt(env.size)), ns) ELSE Res(Raise, ns)

\* Local._guard
_guard(ns, k, method) ==
    IF ~ns_exists(ns, k) THEN Res(Raise, ns) ELSE Res(Return(VBool(method)), ns)

Local_isdir(ns, k) == _guard(ns, k, ns_isdir(ns, k))
Local_isfile(ns, k) == _guard(ns, k, ns_isfile(ns, k))

\* os.makedirs: raises when the leaf exists or a component on the way is a
\* file; otherwise creates the leaf and every missing directory above it
os_makedirs(ns, k) ==
    IF ns_exists(ns, k) \/ ns_prefixes(k) \cap ns.files # {}
    THEN Res(Raise, ns)
    ELSE Res(Return(None), [ns EXCEPT !.dirs = @ \cup ns_prefixes(k)])

\* os.remove answering without taking the file away
os_remove_keeps(ns, k) ==
    IF ns_isfile(ns, k) THEN Res(Return(None), ns) ELSE Res(Raise, ns)

\* os.remove: removes a file; raises on a directory or a missing path
os_remove(ns, k) ==
    IF ns_isfile(ns, k)
    THEN Res(Return(None), [ns EXCEPT !.files = @ \ {k}])
    ELSE Res(Raise, ns)

\* Local.ls: a generator; os.listdir raises inside it for a non-directory
Local_ls(ns, path, k, env) ==
    IF ns_isdir(ns, k)
    THEN Res(Return(VGen(joined(path, Listing(ns, k, env.rev)), FALSE)), ns)
    ELSE Res(Return(VGen(<<>>, TRUE)), ns)

\* ------------------------------------------------------------- Hadoop
\* The hadoopy functions bound in Hadoop.__init__, and Hadoop.isfile.
\* env.hadoop: the hadoop command can be run and reaches the file system.
Hadoop_exists(ns, k, env) ==
    IF env.hadoop THEN Res(Return(VBool(ns_exists(ns, k))), ns) ELSE Res(Raise, ns)

\* partial(hadoopy.stat, format='%b'): the size, as the text the command prints
Hadoop_getsize(ns, k, env) ==
    IF env.hadoop /\ ns_exists(ns, k)
    THEN Res(Return(VStr(Str(env.size))), ns) ELSE Res(Raise, ns)

Hadoop_isdir(ns, k, env) ==
    IF env.hadoop THEN Res(Return(VBool(ns_isdir(ns, k))), ns) ELSE Res(Raise, ns)

\* Hadoop.isfile: stat(path, '%F') == 'regular file'
Hadoop_isfile(ns, k, env) ==
    IF env.hadoop /\ ns_exists(ns, k)
    THEN Res(Return(VBool(ns_isfile(ns, k))), ns) ELSE Res(Raise, ns)

\* hadoopy.ls: the list of the paths below a directory, or the file itself
Hadoop_ls(ns, path, k, env) ==
    IF ~env.hadoop \/ ~ns_exists(ns, k) THEN Res(Raise, ns)
    ELSE IF ns_isfile(ns, k) THEN Res(Return(VList(<<path>>)), ns)
    ELSE Res(Return(VList(joined(path, Listing(ns, k, env.rev)))), ns)

\* hadoopy.mkdir
Hadoop_makedirs(ns, k, env) ==
    IF env.hadoop THEN os_makedirs(ns, k) ELSE Res(Raise, ns)

\* hadoopy.rmr
Hadoop_remove(ns, k, env) ==
    IF env.hadoop /\ ns_exists(ns, k) /\ k # <<>>
    THEN Res(Return(None), ns_remove_tree(ns, k)) ELSE Res(Raise, ns)

\* ------------------------------------------------------------- Chirp
\* chirp.Client as the class uses it. env.chirp: the server answers.
\* stat raises IOError for a missing path; ls raises for a missing path, lists
\* '.', '..' and the entries of a directory, and lists nothing for a file.
\* Result of stat: "ok", "ioerror" or "error"
chirp_stat(ns, k, env) ==
    IF ~env.chirp THEN "error"
    ELSE IF ~ns_exists(ns, k) THEN "ioerror"
    ELSE "ok"

\* Result of ls: [raised, entries]
chirp_ls(ns, k, env) ==
    IF ~env.chirp \/ ~ns_exists(ns, k) THEN [raised |-> TRUE, entries |-> <<>>]
    ELSE IF ns_isfile(ns, k) THEN [raised |-> FALSE, entries |-> <<>>]
    ELSE [raised |-> FALSE,
          entries |-> << <<".">>, <<".", ".">> >> \o joined(<<>>, Listing(ns, k, env.rev))]

\* Chirp.exists: an IOError of stat means False, any other error is raised.
\* A Chirp instance without client raises in every method.
Chirp_exists(self, ns, k, env) ==
    IF ~self.client \/ chirp_stat(ns, k, env) = "error" THEN Res(Raise, ns)
    ELSE Res(Return(VBool(chirp_stat(ns, k, env) = "ok")), ns)

\* Chirp.getsize
Chirp_getsize(self, ns, k, env) ==
    IF self.client /\ chirp_stat(ns, k, env) = "ok"
    THEN Res(Return(VInt(env.size)), ns) ELSE Res(Raise, ns)

\* len(self.__c.ls(path)) > 0, or == 0
chirp_len(self, ns, r, empty) ==
    IF ~self.client \/ r.raised THEN Res(Raise, ns)
    ELSE Res(Return(VBool((Len(r.entries) = 0) = empty)), ns)

\* Chirp.isdir
Chirp_isdir(self, ns, k, env) == chirp_len(self, ns, chirp_ls(ns, k, env), FALSE)

\* Chirp.isfile
Chirp_isfile(self, ns, k, env) == chirp_len(self, ns, chirp_ls(ns, k, env), TRUE)

\* the loop of Chirp.ls over what the client listed
chirp_walk(self, ns, path, r) ==
    IF ~self.client \/ r.raised THEN Res(Return(VGen(<<>>, TRUE)), ns)
    ELSE Res(Return(VGen(
            [i \in 1..Len(SelectSeq(r.entries, LAMBDA f : f \notin {<<".">>, <<".", ".">>})) |->
                join(path, SelectSeq(r.entries, LAMBDA f : f \notin {<<".">>, <<".", ".">>})[i])],
            FALSE)), ns)

\* Chirp.ls: a generator
Chirp_ls(self, ns, path, k, env) == chirp_walk(self, ns, path, chirp_ls(ns, k, env))

\* Chirp.makedirs: client mkdir makes one directory below an existing one
Chirp_makedirs(self, ns, k, env) ==
    IF /\ self.client /\ env.chirp /\ ~ns_exists(ns, k)
       /\ ns_isdir(ns, SubSeq(k, 1, Len(k) - 1))
    THEN Res(Return(None), [ns EXCEPT !.dirs = @ \cup {k}])
    ELSE Res(Raise, ns)

\* Chirp.remove: client rm
Chirp_remove(self, ns, k, env) ==
    IF self.client /\ env.chirp /\ ns_exists(ns, k) /\ k # <<>>
    THEN Res(Return(None), ns_remove_tree(ns, k))
    ELSE Res(Raise, ns)

\* ------------------------------------------------------------- SRM
\* SRM.getsize hands back this placeholder
SrmSize == -666

\* SRM.__stub = ^srm://[A-Za-z0-9:.\-/]+\?SFN=  : the length of the match at
\* the start of path, 0 if there is none
stub_len(path, n) ==
    IF /\ startswith(path, <<"s","r","m",":","/","/">>)
       /\ n >= 1
       /\ OccursAt(path, <<"?","S","F","N","=">>, 6 + n + 1)
    THEN 6 + n + 5 ELSE 0

stub_match(path) ==
    stub_len(path, RunLength(slice_from(path, 6),
                             Lower \cup Upper \cup Digit \cup {":", ".", "-", "/"}))

\* SRM.strip
strip(path) == slice_from(path, stub_match(path))

\* one line of lcg-ls output for entry q
lcg_line(verb, ns, q) ==
    IF verb = "ls -l"
    THEN <<(IF ns_isdir(ns, q) THEN "d" ELSE "-"), " ">> \o PathStr(q)
    ELSE PathStr(q)

\* The lcg-<verb> utilities: exit status, the lines printed, and the storage
\* afterwards. env.srm = "fail": the command exits nonzero and prints nothing.
\* ls prints the path of a file, or of each entry of a directory; ls -l puts
\* the entry's kind ('d' or '-') in front; del removes a file.
lcg(verb, ns, path, k, env) ==
    IF env.srm # "ok" \/ stub_match(path) = 0 \/ ~ns_exists(ns, k)
          \/ (verb = "del" /\ ~ns_isfile(ns, k))
    THEN [returncode |-> 1, stdout |-> <<>>, ns |-> ns]
    ELSE IF verb = "del"
    THEN [returncode |-> 0, stdout |-> <<>>, ns |-> [ns EXCEPT !.files = @ \ {k}]]
    ELSE IF ns_isfile(ns, k)
    THEN [returncode |-> 0, stdout |-> <<lcg_line(verb, ns, k)>>, ns |-> ns]
    ELSE [returncode |-> 0,
          stdout |-> [i \in 1..Cardinality(ns_children(ns, k)) |->
                         lcg_line(verb, ns, Listing(ns, k, env.rev)[i])],
          ns |-> ns]

\* execute without the test of `safe`: every nonzero exit status raises
execute_end_strict(p, ns, safe, env) ==
    IF env.srm = "notools"
    THEN [raised |-> TRUE, error |-> "AttributeError", stdout |-> <<>>, ns |-> ns]
    ELSE IF p.returncode # 0
    THEN [raised |-> TRUE, error |-> "IOError", stdout |-> <<>>, ns |-> p.ns]
    ELSE [raised |-> FALSE, error |-> "none", stdout |-> p.stdout, ns |-> p.ns]

\* what SRM.execute makes of the finished command p: without the utilities
\* Popen raises OSError, which becomes AttributeError; the IOError of a nonzero
\* exit status is not an OSError and leaves execute as it is
execute_end(p, ns, safe, env) ==
    IF env.srm = "notools"
    THEN [raised |-> TRUE, error |-> "AttributeError", stdout |-> <<>>, ns |-> ns]
    ELSE IF p.returncode # 0 /\ ~safe
    THEN [raised |-> TRUE, error |-> "IOError", stdout |-> <<>>, ns |-> p.ns]
    ELSE [raised |-> FALSE, error |-> "none", stdout |-> p.stdout, ns |-> p.ns]

\* SRM.execute. Result: [raised, error, stdout, ns]
execute(cmd, ns, path, k, safe, env) == execute_end(lcg(cmd, ns, path, k, env), ns, safe, env)

\* SRM.exists: any error of the command means False
SRM_exists(ns, path, k, env) ==
    Res(Return(VBool(~execute("ls", ns, path, k, FALSE, env).raised)), ns)

\* SRM.getsize
SRM_getsize(ns) == Res(Return(VInt(SrmSize)), ns)

\* SRM.isfile on the output x of ls -l: False for more than one line or a
\* first line starting with 'd'; negate gives SRM.isdir
srm_isfile(ns, path, x, negate) ==
    IF stub_match(path) = 0 \/ x.raised THEN Res(Raise, ns)
    ELSE IF Len(x.stdout) > 1 THEN Res(Return(VBool(negate)), ns)
    ELSE IF Len(x.stdout) = 1 /\ startswith(x.stdout[1], <<"d">>)
    THEN Res(Return(VBool(negate)), ns)
    ELSE Res(Return(VBool(~negate)), ns)

\* SRM.isfile
SRM_isfile(ns, path, k, env) ==
    srm_isfile(ns, path, execute("ls -l", ns, path, k, TRUE, env), FALSE)

\* SRM.isdir: not self.isfile(path)
SRM_isdir(ns, path, k, env) ==
    srm_isfile(ns, path, execute("ls -l", ns, path, k, TRUE, env), TRUE)

\* the loop of SRM.ls, which puts the stub back in front of every line
srm_walk(ns, path, x) ==
    IF stub_match(path) = 0 \/ x.raised THEN Res(Return(VGen(<<>>, TRUE)), ns)
    ELSE Res(Return(VGen([i \in 1..Len(x.stdout) |->
                            SubSeq(path, 1, stub_match(path)) \o x.stdout[i]], FALSE)), ns)

\* SRM.ls: a generator
SRM_ls(ns, path, k, env) == srm_walk(ns, path, execute("ls", ns, path, k, FALSE, env))

\* SRM.makedirs
SRM_makedirs(ns) == Res(Return(VBool(TRUE)), ns)

\* what SRM.remove makes of the finished del
srm_removed(ns, x) == IF x.raised THEN Res(Raise, ns) ELSE Res(Return(None), x.ns)

\* SRM.remove: the command runs "safe", so only missing utilities raise
SRM_remove(ns, path, k, env) == srm_removed(ns, execute("del", ns, path, k, TRUE, env))

\* ------------------------------------------------------------- dispatch
Classes == {"Local", "Hadoop", "Chirp", "SRM"}
Operations == {"exists", "getsize", "isdir", "isfile", "ls", "makedirs", "remove"}

\* the entry of imp's storage system that pfn names: the path below the URL
\* stub for SRM, the path itself otherwise (a relative one is taken from /)
entry(imp, pfn) == IF imp.cls = "SRM" THEN Comps(strip(pfn)) ELSE Comps(pfn)

\* getattr(imp, attr)(pfn) on storage system ns, k being entry(imp, pfn)
method(imp, attr, ns, pfn, k, env) ==
    CASE imp.cls = "Local" ->
            (CASE attr = "exists"   -> Local_exists(ns, k)
               [] attr = "getsize"  -> Local_getsize(ns, k, env)
               [] attr = "isdir"    -> Local_isdir(ns, k)
               [] attr = "isfile"   -> Local_isfile(ns, k)
               [] attr = "ls"       -> Local_ls(ns, pfn, k, env)
               [] attr = "makedirs" -> os_makedirs(ns, k)
               [] attr = "remove"   -> os_remove(ns, k))
      [] imp.cls = "Hadoop" ->
            (CASE attr = "exists"   -> Hadoop_exists(ns, k, env)
               [] attr = "getsize"  -> Hadoop_getsize(ns, k, env)
               [] attr = "isdir"    -> Hadoop_isdir(ns, k, env)
               [] attr = "isfile"   -> Hadoop_isfile(ns, k, env)
               [] attr = "ls"       -> Hadoop_ls(ns, pfn, k, env)
               [] attr = "makedirs" -> Hadoop_makedirs(ns, k, env)
               [] attr = "remove"   -> Hadoop_remove(ns, k, env))
      [] imp.cls = "Chirp" ->
            (CASE attr = "exists"   -> Chirp_exists(imp, ns, k, env)
               [] attr = "getsize"  -> Chirp_getsize(imp, ns, k, env)
               [] attr = "isdir"    -> Chirp_isdir(imp, ns, k, env)
               [] attr = "isfile"   -> Chirp_isfile(imp, ns, k, env)
               [] attr = "ls"       -> Chirp_ls(imp, ns, pfn, k, env)
               [] attr = "makedirs" -> Chirp_makedirs(imp, ns, k, env)
               [] attr = "remove"   -> Chirp_remove(imp, ns, k, env))
      [] imp.cls = "SRM" ->
            (CASE attr = "exists"   -> SRM_exists(ns, pfn, k, env)
               [] attr = "getsize"  -> SRM_getsize(ns)
               [] attr = "isdir"    -> SRM_isdir(ns, pfn, k, env)
               [] attr = "isfile"   -> SRM_isfile(ns, pfn, k, env)
               [] attr = "ls"       -> SRM_ls(ns, pfn, k, env)
               [] attr = "makedirs" -> SRM_makedirs(ns)
               [] attr = "remove"   -> SRM_remove(ns, pfn, k, env))

\* getattr(imp, attr)(pfn), fs being the contents of every storage system.
\* Result: [out, ns], ns being the contents of imp's storage system afterwards.
invoke(imp, attr, fs, pfn, env) ==
    method(imp, attr, fs[imp.cls], pfn, entry(imp, pfn), env)

\* imp.fixresult(...) applied to what the backend method r did
fixed(imp, r) ==
    [out |-> IF r.out.raised THEN Raise ELSE fixresult(imp, r.out.value),
     ns  |-> r.ns,
     raw |-> r.out.value]

\* The body of the try block of switch for one backend:
\* imp.fixresult(getattr(imp, attr)(imp.lfn2pfn(path))).
\* Result: [out, ns, raw], raw being what the backend method handed back and
\* ns the contents of the backend's storage system afterwards.
attempt(imp, attr, fs, path, env) ==
    fixed(imp, invoke(imp, attr, fs, lfn2pfn(imp, path), env))

\* StorageElement.__getattr__.switch: the loop over self._systems from backend
\* i on, log holding the backends invoked before i.
\* Result: [raised, value, log, served, raw, fs]. raised is the final
\* AttributeError; log lists the backends invoked, in the order of invocation;
\* served is the backend whose result was returned (0 if none) and raw what
\* its method handed back; fs is the storage afterwards.
RECURSIVE switch(_, _, _, _, _, _, _)
\* switch without its `return`: the loop goes on after a backend returned, and
\* the result of the last backend that returned is handed back
switch_keeps_going(systems, i, attr, path, fs, env, log, a) ==
    IF i < Len(systems)
    THEN switch(systems, i + 1, attr, path, [fs EXCEPT ![systems[i].cls] = a.ns], env,
                Append(log, i))
    ELSE [raised |-> a.out.raised, value |-> a.out.value, log |-> Append(log, i),
          served |-> IF a.out.raised THEN 0 ELSE i, raw |-> a.raw,
          fs |-> [fs EXCEPT ![systems[i].cls] = a.ns]]

\* switch without its try/except: the error of a backend reaches the caller
switch_no_except(systems, i, attr, path, fs, env, log, a) ==
    [raised |-> a.out.raised, value |-> a.out.value, log |-> Append(log, i),
     served |-> IF a.out.raised THEN 0 ELSE i, raw |-> a.raw,
     fs |-> [fs EXCEPT ![systems[i].cls] = a.ns]]

\* backend i has been tried, with the result a
switch_tried(systems, i, attr, path, fs, env, log, a) ==
    IF a.out.raised
    THEN switch(systems, i + 1, attr, path, [fs EXCEPT ![systems[i].cls] = a.ns], env,
                Append(log, i))
    ELSE [raised |-> FALSE, value |-> a.out.value, log |-> Append(log, i),
          served |-> i, raw |-> a.raw, fs |-> [fs EXCEPT ![systems[i].cls] = a.ns]]

switch(systems, i, attr, path, fs, env, log) ==
    IF i > Len(systems)
    THEN [raised |-> TRUE, value |-> None, log |-> log, served |-> 0, raw |-> None, fs |-> fs]
    ELSE switch_tried(systems, i, attr, path, fs, env, log,
                      attempt(systems[i], attr, fs, path, env))

\* ------------------------------------------------------------- configuration
Proto(name) ==
    CASE name = "file"  -> <<"f","i","l","e">>
      [] name = "chirp" -> <<"c","h","i","r","p">>
      [] name = "hdfs"  -> <<"h","d","f","s">>
      [] name = "srm"   -> <<"s","r","m">>

\* StorageConfiguration._initialize: one backend per URL, registered in
\* self._systems by StorageElement.__init__ as it is constructed.
\* has_hadoopy: the import of hadoopy succeeded, so class Hadoop exists.
\* chirp_auth: the chirp server accepts the client.
\* Result: [raised, systems].
RECURSIVE _initialize(_, _, _, _)
_initialize(methods, systems, has_hadoopy, chirp_auth) ==
    IF methods = <<>> THEN [raised |-> FALSE, systems |-> systems]
    ELSE LET url == Head(methods)
             m == url_re(url)
             more(imp) == _initialize(Tail(methods), Append(systems, imp), has_hadoopy, chirp_auth)
         IN  IF ~m.matched THEN [raised |-> TRUE, systems |-> systems]
             ELSE IF m.protocol = Proto("chirp")
             THEN \* Chirp.__init__ registers the instance before it creates the client
                  IF chirp_auth THEN more(Backend("Chirp", m.path, m.server, TRUE))
                  ELSE [raised |-> TRUE,
                        systems |-> Append(systems, Backend("Chirp", m.path, m.server, FALSE))]
             ELSE IF m.protocol = Proto("file")
             THEN more(Backend("Local", m.path, <<>>, FALSE))
             ELSE IF m.protocol = Proto("hdfs")
             THEN IF has_hadoopy THEN more(Backend("Hadoop", m.path, <<>>, FALSE))
                  ELSE [raised |-> TRUE, systems |-> systems]
             ELSE IF m.protocol = Proto("srm")
             THEN more(Backend("SRM", url, <<>>, FALSE))
             ELSE _initialize(Tail(methods), systems, has_hadoopy, chirp_auth)

\* activate without the reset between the two phases: the output backends are
\* registered behind the input backends
activate_one_reset(cfg_input, cfg_output, old_defaults, has_hadoopy, chirp_auth) ==
    LET ins == _initialize(cfg_input, <<>>, has_hadoopy, chirp_auth)
        outs == _initialize(cfg_output, ins.systems, has_hadoopy, chirp_auth)
    IN  IF ins.raised
        THEN [raised |-> TRUE, systems |-> ins.systems, defaults |-> old_defaults]
        ELSE [raised |-> outs.raised, systems |-> outs.systems, defaults |-> ins.systems]

\* activate with the two directions taken the other way round
activate_swapped(cfg_input, cfg_output, old_defaults, has_hadoopy, chirp_auth) ==
    LET ins == _initialize(cfg_output, <<>>, has_hadoopy, chirp_auth)
        outs == _initialize(cfg_input, <<>>, has_hadoopy, chirp_auth)
    IN  IF ins.raised
        THEN [raised |-> TRUE, systems |-> ins.systems, defaults |-> old_defaults]
        ELSE [raised |-> outs.raised, systems |-> outs.systems, defaults |-> ins.systems]

\* StorageConfiguration.activate, with StorageElement.reset and store.
\* Result: [raised, systems, defaults], the class attributes afterwards.
activate(cfg_input, cfg_output, old_defaults, has_hadoopy, chirp_auth) ==
    LET ins == _initialize(cfg_input, <<>>, has_hadoopy, chirp_auth)
        outs == _initialize(cfg_output, <<>>, has_hadoopy, chirp_auth)
    IN  IF ins.raised
        THEN [raised |-> TRUE, systems |-> ins.systems, defaults |-> old_defaults]
        ELSE [raised |-> outs.raised, systems |-> outs.systems, defaults |-> ins.systems]

\* the scan of StorageConfiguration.local over the URLs that are left.
\* Result: [raised, error, fn]; error "IOError" is "Can't create LFN without
\* local storage access", "AttributeError" a URL the grammar does not match.
RECURSIVE local_scan(_, _, _)
local_scan(urls, ns, filename) ==
    IF urls = <<>> THEN [raised |-> TRUE, error |-> "IOError", fn |-> <<>>]
    ELSE IF ~url_re(Head(urls)).matched
    THEN [raised |-> TRUE, error |-> "AttributeError", fn |-> <<>>]
    ELSE IF url_re(Head(urls)).protocol # Proto("file")
    THEN local_scan(Tail(urls), ns, filename)
    ELSE IF ns_isfile(ns, Comps(join(url_re(Head(urls)).path, filename)))
    THEN [raised |-> FALSE, error |-> "none", fn |-> join(url_re(Head(urls)).path, filename)]
    ELSE local_scan(Tail(urls), ns, filename)

\* local scanning the output URLs before the input URLs
local_outputs_first(cfg_input, cfg_output, ns, filename) ==
    local_scan(cfg_output \o cfg_input, ns, filename)

\* StorageConfiguration.local, ns being the local file system
local(cfg_input, cfg_output, ns, filename) ==
    local_scan(cfg_input \o cfg_output, ns, filename)

\* the orders random.shuffle can leave a list in
shuffle(l) ==
    {[i \in 1..Len(l) |-> l[p[i]]] :
        p \in {q \in [1..Len(l) -> 1..Len(l)] : \A i, j \in 1..Len(l) : i # j => q[i] # q[j]}}

\* preprocess shuffling the input list whatever the flag says
preprocess_shuffles_inputs(cfg_input, cfg_output, fl, merge, shuffled_in, shuffled_out) ==
    [input |-> shuffled_in,
     output |-> cfg_output,
     parameters |-> [set |-> TRUE,
                     input |-> IF merge THEN cfg_output ELSE shuffled_in,
                     output |-> cfg_output,
                     disable_streaming |-> fl.no_streaming]]

\* StorageConfiguration.preprocess; shuffled_in and shuffled_out are what
\* random.shuffle makes of the two lists when it is called.
\* Result: [input, output, parameters], the two lists and the dict afterwards.
preprocess(cfg_input, cfg_output, fl, merge, shuffled_in, shuffled_out) ==
    LET ins == IF fl.shuffle_inputs THEN shuffled_in ELSE cfg_input
        outs == IF fl.shuffle_outputs \/ (fl.shuffle_inputs /\ merge)
                THEN shuffled_out ELSE cfg_output
    IN  [input |-> ins,
         output |-> outs,
         parameters |-> [set |-> TRUE,
                         input |-> IF merge THEN outs ELSE ins,
                         output |-> outs,
                         disable_streaming |-> fl.no_streaming]]

\* ------------------------------------------------------------- job provider
\* SimpleJobProvider (src/lobster/job.py) as the record of its counters
\* [max, done, running, id].

\* SimpleJobProvider.done
done(self) == self.done = self.max

\* SimpleJobProvider.work_left
work_left(self) == self.max - self.done

\* the test of the loop of obtain, taken as passing once more at the maximum
can_issue_at_max(self) == self.id <= self.max

\* the test of the loop of obtain: another task may be created
can_issue(self) == self.id < self.max

\* the loop of obtain with n rounds to go. Result: [self, tasks], tasks being
\* the tags str(self.__id) of the tuples appended.
RECURSIVE obtain_loop(_, _, _)
obtain_loop(self, n, tasks) ==
    IF n <= 0 \/ ~can_issue(self) THEN [self |-> self, tasks |-> tasks]
    ELSE obtain_loop([self EXCEPT !.running = @ + 1, !.id = @ + 1], n - 1,
                     Append(tasks, Str(self.id + 1)))

\* SimpleJobProvider.obtain. Result: [raised, self, tasks]; raised is the
\* NotImplementedError of bijective.
obtain(self, num, bijective) ==
    IF bijective THEN [raised |-> TRUE, self |-> self, tasks |-> <<>>]
    ELSE [raised |-> FALSE, self |-> obtain_loop(self, num, <<>>).self,
          tasks |-> obtain_loop(self, num, <<>>).tasks]

\* the body of the loop of release counting every task as done
release_task_counts_all(self, task) ==
    [self EXCEPT !.running = @ - 1, !.done = @ + 1]

\* the counters after the body of the loop of release has run for one task
release_task(self, task) ==
    [self EXCEPT !.running = @ - 1,
                 !.done = IF task.return_status = 0 THEN @ + 1 ELSE @]

\* SimpleJobProvider.release. A task is [tag, return_status, output], output
\* telling whether task.output is true; the module never imports gzip, so the
\* first task with output ends the call with a NameError, after its counters
\* were updated. Result: [raised, self, processed], processed being the tasks
\* whose counters were updated.
RECURSIVE release(_, _, _)
release(self, tasks, processed) ==
    IF tasks = <<>> THEN [raised |-> FALSE, self |-> self, processed |-> processed]
    ELSE IF Head(tasks).output
    THEN [raised |-> TRUE, self |-> release_task(self, Head(tasks)),
          processed |-> Append(processed, Head(tasks))]
    ELSE release(release_task(self, Head(tasks)), Tail(tasks), Append(processed, Head(tasks)))

\* ------------------------------------------------------------- state
VARIABLES
    input,          \* StorageConfiguration.__input, after site resolution
    output,         \* StorageConfiguration.__output, after site resolution
    hadoopy,        \* the module could import hadoopy, so class Hadoop exists
    _systems,       \* the class attribute StorageElement._systems
    _defaults,      \* the class attribute StorageElement._defaults
    handle_systems, \* per master handle: its own attribute _systems, if set
    scopes,         \* per thread: the default() blocks it is inside, innermost last;
                    \* with each its handle, its local tmp, and what the handle
                    \* dispatched to (pre) and _defaults held (dflt) on entry
    fs,             \* per backend class: the contents of its storage system
    last,           \* the operation performed last and how it ended
    flags,          \* StorageConfiguration.__shuffle_inputs, __shuffle_outputs and
                    \* __no_streaming
    history,        \* what is remembered of the past: the two URL lists as
                    \* __init__ resolved them, and the sets the first activate()
                    \* that returned has built; and per handle, while default()
                    \* blocks are open on it: the threads inside in the order
                    \* they entered, the set the handle dispatched to before
                    \* the first of them entered, whether a block was left
                    \* while a block entered later was open, and the largest
                    \* number of blocks open at once
    job,            \* SimpleJobProvider: __max, __done, __running, __id
    ledger          \* what is remembered of the tasks: the tags issued so far
                    \* in order, and the bag of the releases processed so far,
                    \* each the pair of a tag and a return status

vars == <<input, output, hadoopy, _systems, _defaults, handle_systems, scopes, fs, last,
          flags, history, job, ledger>>

\* master handles, StorageElement(), and the threads of the program
Handles == {"h1", "h2"}
Threads == {"t1", "t2"}
\* the thread of a program that does not use threads
Main == "t1"

\* ------------------------------------------------------------- universe
DataIn   == Proto("file") \o <<":","/","/","/","d","a","t","a","/","i","n">>
DataOut  == Proto("file") \o <<":","/","/","/","d","a","t","a","/","o","u","t">>
ChirpUrl == Proto("chirp") \o <<":","/","/","c","/","x">>
HdfsUrl  == Proto("hdfs") \o <<":","/","/","/","h">>
SrmUrl   == Proto("srm") \o <<":","/","/","s","/","p","?","S","F","N","=","/","g">>
RootUrl  == <<"r","o","o","t",":","/","/","x","/","y">>
SiteUrl  == <<"r","o","o","t",":","/","/">> \o NotreDame \o <<"/">> \o StoreLit \o <<"u">>

\* the configurations: config['input'] and config['output']
Configs ==
    { [input |-> <<DataIn>>,           output |-> <<DataOut>>],
      [input |-> <<SrmUrl>>,           output |-> <<ChirpUrl, DataOut>>],
      [input |-> <<RootUrl>>,          output |-> <<DataOut, DataIn>>],
      [input |-> <<DataIn>>,           output |-> <<SiteUrl>>],
      [input |-> <<HdfsUrl>>,          output |-> <<SrmUrl, HdfsUrl>>] }

\* the logical paths callers ask for
AFile == <<"/","a",".","t","x","t">>
Root  == <<"/">>
LFNs  == {AFile, Root}

\* the sizes a storage system may report for an entry
Sizes == {0, 42}

\* what the storage systems hold at the start
Dir(p) == Comps(p)
LocalDirs == {Dir(<<"/","d","a","t","a">>), Dir(<<"/","d","a","t","a","/","i","n">>),
              Dir(<<"/","d","a","t","a","/","o","u","t">>)}
InFile  == Comps(<<"/","d","a","t","a","/","i","n">> \o AFile)
OutFile == Comps(<<"/","d","a","t","a","/","o","u","t">> \o AFile)
RemoteStart(top) == [files |-> {Comps(top \o AFile)}, dirs |-> {Comps(top)}]

\* no attribute _systems in the handle's own __dict__
NoAttr == [set |-> FALSE, v |-> <<>>]

\* self._systems read through a master handle: the handle's own attribute if
\* it has one, the class attribute otherwise
get_systems(h) == IF handle_systems[h].set THEN handle_systems[h].v ELSE _systems

\* the outcomes of the external systems that matter for one call
Envs(systems, attr) ==
    LET has(cls) == \E i \in 1..Len(systems) : systems[i].cls = cls
    IN  [hadoop : IF has("Hadoop") THEN BOOLEAN ELSE {TRUE},
         chirp  : IF has("Chirp") THEN BOOLEAN ELSE {TRUE},
         srm    : IF has("SRM") THEN {"ok", "fail", "notools"} ELSE {"ok"},
         size   : IF attr = "getsize" THEN Sizes ELSE {0},
         rev    : IF attr = "ls" THEN BOOLEAN ELSE {FALSE}]

NoEnv == [hadoop |-> TRUE, chirp |-> TRUE, srm |-> "ok", size |-> 0, rev |-> FALSE]

\* the dict a caller hands to preprocess, before preprocess has filled it
NoParameters == [set |-> FALSE, input |-> <<>>, output |-> <<>>, disable_streaming |-> FALSE]

Idle == [op |-> "none", raised |-> FALSE, handle |-> "h1", attr |-> "exists", path |-> <<>>,
         systems |-> <<>>, fs0 |-> <<>>, env |-> NoEnv, log |-> <<>>, served |-> 0,
         raw |-> None, value |-> None, before |-> <<>>, dflt |-> <<>>,
         error |-> "none", merge |-> FALSE, parameters |-> NoParameters,
         num |-> 0, tasks |-> <<>>,
         closed |-> FALSE, base |-> <<>>, crossed |-> FALSE, peak |-> 0]

\* config.get(..., False) for the three flags of StorageConfiguration
NoFlags == [shuffle_inputs |-> FALSE, shuffle_outputs |-> FALSE, no_streaming |-> FALSE]
Flags == [shuffle_inputs : BOOLEAN, shuffle_outputs : BOOLEAN, no_streaming : BOOLEAN]

\* no default() block is open on a handle
NoEpisode == [open |-> <<>>, base |-> <<>>, crossed |-> FALSE, peak |-> 0]

\* nothing activated yet
NoFirst == [set |-> FALSE, systems |-> <<>>, defaults |-> <<>>]

\* SimpleJobProvider.__init__ with config['max'] = max
NewJob(max) == [max |-> max, done |-> 0, running |-> 0, id |-> 0]
NoLedger == [issued |-> <<>>, released |-> EmptyBag]

\* ------------------------------------------------------------- Init
\* StorageConfiguration.__init__ on one of the configurations with the flags
\* fl, the local disk holding local_files, and SimpleJobProvider.__init__ with
\* max, the configuration being one of configs; nothing is registered yet and no handle has an attribute of its own.
Start(configs, fl, local_files, max) ==
    /\ \E c \in configs :
          /\ input = [i \in 1..Len(c.input) |-> _expand_site(c.input[i]).url]
          /\ output = [i \in 1..Len(c.output) |-> _expand_site(c.output[i]).url]
    /\ hadoopy \in (IF \E i \in 1..Len(input) + Len(output) :
                            url_re((input \o output)[i]).protocol = Proto("hdfs")
                     THEN BOOLEAN ELSE {FALSE})
    /\ _systems = <<>>
    /\ _defaults = <<>>
    /\ handle_systems = [h \in Handles |-> NoAttr]
    /\ scopes = [t \in Threads |-> <<>>]
    /\ fs = [cls \in Classes |->
                CASE cls = "Local"  -> [files |-> local_files, dirs |-> LocalDirs]
                  [] cls = "Hadoop" -> RemoteStart(<<"/","h">>)
                  [] cls = "Chirp"  -> RemoteStart(<<"/","x">>)
                  [] cls = "SRM"    -> RemoteStart(<<"/","g">>)]
    /\ last = Idle
    /\ flags = fl
    /\ history = [input0 |-> input, output0 |-> output, first |-> NoFirst,
                  episode |-> [h \in Handles |-> NoEpisode]]
    /\ job = NewJob(max)
    /\ ledger = NoLedger

\* the storage layer of a program that does not shuffle and issues no tasks
Init == Start(Configs, NoFlags, {InFile}, 0)

\* a configuration with two input URLs, and a file that sits at the root of the
\* local disk
TwoInputs == [input |-> <<SrmUrl, DataIn>>, output |-> <<DataOut, DataIn>>]
RootFile == Comps(AFile)

\* StorageConfiguration.__init__ with any flags, on a local disk with any of
\* the three files
InitConfig ==
    \E fl \in Flags, local_files \in SUBSET {InFile, OutFile, RootFile} :
        Start(Configs \cup {TwoInputs}, fl, local_files, 0)

\* the file names callers ask local() for
AName == <<"a",".","t","x","t">>
Filenames == {AName, AFile}

\* ------------------------------------------------------------- actions
\* StorageConfiguration.activate()
Activate ==
    /\ last = Idle
    /\ \E chirp_auth \in BOOLEAN :
        \E r \in {activate(input, output, _defaults, hadoopy, chirp_auth)} :
            /\ _systems' = r.systems
            /\ _defaults' = r.defaults
            /\ last' = [Idle EXCEPT !.op = "activate", !.raised = r.raised]
            /\ history' = IF history.first.set \/ r.raised THEN history
                          ELSE [history EXCEPT !.first = [set |-> TRUE, systems |-> r.systems,
                                                          defaults |-> r.defaults]]
    /\ UNCHANGED <<input, output, hadoopy, handle_systems, scopes, fs, flags, job, ledger>>

\* handle.<attr>(path): a Registry call through master handle h
Call(h, attr, path) ==
    /\ last = Idle
    /\ \E env \in Envs(get_systems(h), attr) :
        \E r \in {switch(get_systems(h), 1, attr, path, fs, env, <<>>)} :
            /\ fs' = r.fs
            /\ last' = [Idle EXCEPT !.op = "call", !.raised = r.raised, !.handle = h,
                                    !.attr = attr, !.path = path,
                                    !.systems = get_systems(h), !.fs0 = fs, !.env = env,
                                    !.log = r.log, !.served = r.served, !.raw = r.raw,
                                    !.value = r.value]
    /\ UNCHANGED <<input, output, hadoopy, _systems, _defaults, handle_systems, scopes,
                   flags, history, job, ledger>>

\* default() without try/finally: an error inside the block skips the restore
restore_unless_error(current, tmp, error) == IF error THEN current ELSE tmp

\* default() never putting the saved set back
restore_never(current, tmp, error) == current

\* what the finally clause of default() assigns to the handle's _systems
restore(current, tmp, error) == tmp

\* the episode of handle h once thread t has entered a default() block on it
entered(ep, t, current) ==
    [open |-> Append(ep.open, t),
     base |-> IF ep.open = <<>> THEN current ELSE ep.base,
     crossed |-> IF ep.open = <<>> THEN FALSE ELSE ep.crossed,
     peak |-> IF ep.open = <<>> THEN 1
              ELSE IF Len(ep.open) + 1 > ep.peak THEN Len(ep.open) + 1 ELSE ep.peak]

\* the position in ep.open of the block thread t entered last
innermost(ep, t) ==
    CHOOSE i \in 1..Len(ep.open) :
        ep.open[i] = t /\ \A j \in (i + 1)..Len(ep.open) : ep.open[j] # t

\* the episode of a handle once thread t has left its innermost block on it
left(ep, t) ==
    [open |-> SubSeq(ep.open, 1, innermost(ep, t) - 1)
                \o SubSeq(ep.open, innermost(ep, t) + 1, Len(ep.open)),
     base |-> ep.base,
     crossed |-> ep.crossed \/ innermost(ep, t) < Len(ep.open),
     peak |-> ep.peak]

\* `with h.default():` entered by thread t: lines 90-93 of default()
DefaultEnter(t, h) ==
    /\ last = Idle
    /\ Len(scopes[t]) < MaxNest
    /\ scopes' = [scopes EXCEPT ![t] = Append(@, [h |-> h, tmp |-> get_systems(h),
                                                  pre |-> get_systems(h),
                                                  dflt |-> _defaults, swapped |-> TRUE])]
    /\ handle_systems' = [handle_systems EXCEPT ![h] = [set |-> TRUE, v |-> _defaults]]
    /\ history' = [history EXCEPT !.episode[h] = entered(@, t, get_systems(h))]
    /\ last' = [Idle EXCEPT !.op = "enter", !.handle = h]
    /\ UNCHANGED <<input, output, hadoopy, _systems, _defaults, fs, flags, job, ledger>>

\* line 90 of default() run by thread t on handle h: tmp = self._systems
DefaultSave(t, h) ==
    /\ last = Idle
    /\ Len(scopes[t]) < MaxNest
    /\ \A k \in 1..Len(scopes[t]) : scopes[t][k].swapped
    /\ scopes' = [scopes EXCEPT ![t] = Append(@, [h |-> h, tmp |-> get_systems(h),
                                                  pre |-> get_systems(h),
                                                  dflt |-> _defaults, swapped |-> FALSE])]
    /\ history' = [history EXCEPT !.episode[h] = entered(@, t, get_systems(h))]
    /\ last' = [Idle EXCEPT !.op = "save", !.handle = h]
    /\ UNCHANGED <<input, output, hadoopy, _systems, _defaults, handle_systems, fs,
                   flags, job, ledger>>

\* line 91 of default() run by thread t: self._systems = self._defaults
DefaultSwap(t) ==
    /\ last = Idle
    /\ scopes[t] # <<>>
    /\ ~scopes[t][Len(scopes[t])].swapped
    /\ handle_systems' = [handle_systems EXCEPT ![scopes[t][Len(scopes[t])].h] =
                              [set |-> TRUE, v |-> _defaults]]
    /\ scopes' = [scopes EXCEPT ![t][Len(scopes[t])].swapped = TRUE,
                                ![t][Len(scopes[t])].dflt = _defaults]
    /\ last' = [Idle EXCEPT !.op = "enter", !.handle = scopes[t][Len(scopes[t])].h]
    /\ UNCHANGED <<input, output, hadoopy, _systems, _defaults, fs,
                   flags, history, job, ledger>>

\* the innermost default() block of thread t is left, normally or by an
\* error raised inside it: lines 94-95 of default()
DefaultExit(t, error) ==
    /\ last = Idle
    /\ scopes[t] # <<>>
    /\ scopes[t][Len(scopes[t])].swapped
    /\ LET sc == scopes[t][Len(scopes[t])]
       IN  /\ handle_systems' = [handle_systems EXCEPT ![sc.h] =
                   [set |-> TRUE, v |-> restore(get_systems(sc.h), sc.tmp, error)]]
           /\ \E ep \in {left(history.episode[sc.h], t)} :
                /\ history' = [history EXCEPT !.episode[sc.h] =
                                   IF ep.open = <<>> THEN NoEpisode ELSE ep]
                /\ last' = [Idle EXCEPT !.op = "exit", !.raised = error, !.handle = sc.h,
                                        !.before = sc.pre, !.dflt = sc.dflt,
                                        !.closed = (ep.open = <<>>), !.base = ep.base,
                                        !.crossed = ep.crossed, !.peak = ep.peak]
    /\ scopes' = [scopes EXCEPT ![t] = SubSeq(@, 1, Len(@) - 1)]
    /\ UNCHANGED <<input, output, hadoopy, _systems, _defaults, fs, flags, job, ledger>>

\* the caller has looked at the outcome of the last operation and goes on
Proceed ==
    /\ last # Idle
    /\ last' = Idle
    /\ UNCHANGED <<input, output, hadoopy, _systems, _defaults, handle_systems, scopes, fs,
                   flags, history, job, ledger>>

\* StorageConfiguration.preprocess(parameters, merge)
Preprocess(merge) ==
    /\ last = Idle
    /\ \E shuffled_in \in shuffle(input), shuffled_out \in shuffle(output) :
        \E r \in {preprocess(input, output, flags, merge, shuffled_in, shuffled_out)} :
            /\ input' = r.input
            /\ output' = r.output
            /\ last' = [Idle EXCEPT !.op = "preprocess", !.merge = merge,
                                    !.parameters = r.parameters]
    /\ UNCHANGED <<hadoopy, _systems, _defaults, handle_systems, scopes, fs,
                   flags, history, job, ledger>>

\* StorageConfiguration.local(filename)
LocalLookup(filename) ==
    /\ last = Idle
    /\ \E r \in {local(input, output, fs["Local"], filename)} :
            last' = [Idle EXCEPT !.op = "local", !.path = filename, !.raised = r.raised,
                                !.error = r.error, !.fs0 = fs,
                                !.value = IF r.raised THEN None ELSE VStr(r.fn)]
    /\ UNCHANGED <<input, output, hadoopy, _systems, _defaults, handle_systems, scopes, fs,
                   flags, history, job, ledger>>

\* the tags issued so far, and the lists of at most two tasks made of them
Tags == {ledger.issued[i] : i \in 1..Len(ledger.issued)}
Tasks == [tag : Tags, return_status : {0, 1}, output : BOOLEAN]
TaskLists == {<<>>} \cup {<<a>> : a \in Tasks} \cup {<<a, b>> : a, b \in Tasks}

\* the bag of the pairs <<tag, return_status>> of a list of tasks
RECURSIVE Released(_)
Released(tasks) ==
    IF tasks = <<>> THEN EmptyBag
    ELSE SetToBag({<<Head(tasks).tag, Head(tasks).return_status>>}) (+) Released(Tail(tasks))

\* provider.obtain(num, bijective)
Obtain(num, bijective) ==
    /\ last = Idle
    /\ \E r \in {obtain(job, num, bijective)} :
            /\ job' = r.self
            /\ ledger' = [ledger EXCEPT !.issued = @ \o r.tasks]
            /\ last' = [Idle EXCEPT !.op = "obtain", !.raised = r.raised, !.num = num,
                                    !.tasks = r.tasks]
    /\ UNCHANGED <<input, output, hadoopy, _systems, _defaults, handle_systems, scopes, fs,
                   flags, history>>

\* provider.release(tasks)
Release(tasks) ==
    /\ last = Idle
    /\ BagCardinality(ledger.released) + Len(tasks) <= MaxReleased
    /\ \E r \in {release(job, tasks, <<>>)} :
            /\ job' = r.self
            /\ ledger' = [ledger EXCEPT !.released = @ (+) Released(r.processed)]
            /\ last' = [Idle EXCEPT !.op = "release", !.raised = r.raised,
                                    !.num = Len(tasks), !.tasks = r.processed]
    /\ UNCHANGED <<input, output, hadoopy, _systems, _defaults, handle_systems, scopes, fs,
                   flags, history>>

Next ==
    \/ Activate
    \/ \E h \in Handles, attr \in Operations, path \in LFNs : Call(h, attr, path)
    \/ \E h \in Handles : DefaultEnter(Main, h)
    \/ \E t \in Threads, error \in BOOLEAN : DefaultExit(t, error)
    \/ Proceed

Spec == Init /\ [][Next]_vars

\* the StorageConfiguration on its own: activation, preprocess and local
NextConfig ==
    \/ Activate
    \/ \E merge \in BOOLEAN : Preprocess(merge)
    \/ \E filename \in Filenames : LocalLookup(filename)
    \/ Proceed

SpecConfig == InitConfig /\ [][NextConfig]_vars

\* threads that use default() on one handle they share, with nothing to keep
\* them apart: every line of default() is a step of its own
Shared == "h1"
Plain == [input |-> <<DataIn>>, output |-> <<DataOut>>]
InitThreads == Start({Plain, TwoInputs}, NoFlags, {InFile}, 0)

NextThreads ==
    \/ Activate
    \/ \E t \in Threads : DefaultSave(t, Shared)
    \/ \E t \in Threads : DefaultSwap(t)
    \/ \E t \in Threads, error \in BOOLEAN : DefaultExit(t, error)
    \/ Proceed

SpecThreads == InitThreads /\ [][NextThreads]_vars

\* the SimpleJobProvider on its own
InitJob == \E max \in 0..MaxTasks : Start({TwoInputs}, NoFlags, {InFile}, max)

NextJob ==
    \/ \E num \in 0..MaxNum, bijective \in BOOLEAN : Obtain(num, bijective)
    \/ \E tasks \in TaskLists : Release(tasks)
    \/ Proceed

SpecJob == InitJob /\ [][NextJob]_vars

\* ------------------------------------------------------------- claims
\* the sequence 1, 2, ..., n
UpTo(n) == [j \in 1..n |-> j]

\* the last operation was a Registry call, and backend j of the set it
\* dispatched to raises for it (in its method or in fixresult)
Raises(j) == attempt(last.systems[j], last.attr, last.fs0, last.path, last.env).out.raised

\* what backend j hands back for the last call, converted to logical form
Converted(j) ==
    fixresult(last.systems[j],
              invoke(last.systems[j], last.attr, last.fs0,
                     lfn2pfn(last.systems[j], last.path), last.env).out.value).value

\* C1: a Registry call invokes the backends of its set in registration order,
\* each at most once; when backends 1..i-1 raise and backend i returns, the
\* call returns backend i's result in logical form and invokes no backend
\* after i.
C1_FirstSuccessWins ==
    last.op = "call" =>
        /\ \E n \in 0..Len(last.systems) : last.log = UpTo(n)
        /\ \A i \in 1..Len(last.systems) :
              (~Raises(i) /\ \A j \in 1..(i - 1) : Raises(j)) =>
                  /\ ~last.raised
                  /\ last.served = i
                  /\ last.log = UpTo(i)
                  /\ last.value = Converted(i)

\* C1 witness: the first backend raised, the second one listed a directory,
\* and the call returned the listing in logical form
C1_Witness ==
    /\ last.op = "call"
    /\ last.attr = "ls"
    /\ Len(last.systems) = 2
    /\ last.served = 2
    /\ last.value.l # <<>>
    /\ last.value.l # last.raw.l

\* C2: a Registry call raises the no-working-backend error exactly when every
\* backend of its set raised for that call (an empty set included).
C2_RaisesIffAllRaise ==
    last.op = "call" =>
        (last.raised <=> \A j \in 1..Len(last.systems) : Raises(j))

\* C2 witness: two backends were tried, both raised, and the call raised
C2_Witness ==
    /\ last.op = "call"
    /\ last.raised
    /\ last.log = UpTo(2)

\* the protocols _initialize has a backend for
Supported == {Proto("chirp"), Proto("file"), Proto("hdfs"), Proto("srm")}

\* the backend _initialize builds for one URL with a supported protocol
BackendOf(url) ==
    LET m == url_re(url)
    IN  CASE m.protocol = Proto("chirp") -> Backend("Chirp", m.path, m.server, TRUE)
          [] m.protocol = Proto("file")  -> Backend("Local", m.path, <<>>, FALSE)
          [] m.protocol = Proto("hdfs")  -> Backend("Hadoop", m.path, <<>>, FALSE)
          [] m.protocol = Proto("srm")   -> Backend("SRM", url, <<>>, FALSE)

\* one backend per URL with a supported protocol, in the order of the list
OnePerUrl(urls) ==
    LET known == SelectSeq(urls, LAMBDA u : url_re(u).protocol \in Supported)
    IN  [i \in 1..Len(known) |-> BackendOf(known[i])]

\* C3: after an activate() that returns, the active set is one backend per
\* output URL with a supported protocol, in list order, and the default set
\* one backend per such input URL, whatever the two sets held before.
C3_ActivateRebuilds ==
    (last.op = "activate" /\ ~last.raised) =>
        /\ _systems = OnePerUrl(output)
        /\ _defaults = OnePerUrl(input)

\* C3 witness: activate() returned with two active backends and one default
\* backend, all of different kinds
C3_Witness ==
    /\ last.op = "activate"
    /\ ~last.raised
    /\ Len(_systems) = 2
    /\ Len(_defaults) = 1
    /\ \A i \in 1..2 : _systems[i] # _defaults[1]

\* the innermost default() block on handle h, if a thread is inside one
Inside(h) == \E t \in Threads : \E k \in 1..Len(scopes[t]) : scopes[t][k].h = h
InnerScope(h) ==
    LET t == CHOOSE u \in Threads : \E k \in 1..Len(scopes[u]) : scopes[u][k].h = h
        k == CHOOSE i \in 1..Len(scopes[t]) :
                /\ scopes[t][i].h = h
                /\ \A j \in (i + 1)..Len(scopes[t]) : scopes[t][j].h # h
    IN  scopes[t][k]

\* C4: inside a default() block the handle dispatches to the default set; once
\* the block is left, normally or by an error, the handle dispatches to the
\* set it dispatched to before the block was entered.
C4_DefaultScoped ==
    /\ \A h \in Handles : Inside(h) => get_systems(h) = InnerScope(h).dflt
    /\ (last.op = "call" /\ Inside(last.handle)) =>
            last.systems = InnerScope(last.handle).dflt
    /\ last.op = "exit" => get_systems(last.handle) = last.before

\* C4 witness: after an activate() a block was left by an error, and the
\* handle is back on a non-empty set that differs from the default set
C4_Witness ==
    /\ last.op = "exit"
    /\ last.raised
    /\ last.before # <<>>
    /\ last.dflt # <<>>
    /\ last.before # last.dflt
    /\ get_systems(last.handle) = last.before

\* the backends registered in the active set or in the default set
Registered ==
    {_systems[i] : i \in 1..Len(_systems)} \cup {_defaults[i] : i \in 1..Len(_defaults)}

\* C5: for every backend prefix P, those activate() derives and the empty one,
\* and every logical path L rooted at '/', turning L into a physical path under
\* P and back yields exactly L.
C5_RoundTrip ==
    last.op = "activate" =>
        \A b \in Registered \cup {Backend("Local", <<>>, <<>>, FALSE)} :
            \A L \in LFNs : pfn2lfn(b, lfn2pfn(b, L)) = L

\* C6: every path a Registry ls() returns is a logical path rooted at '/' that
\* does not contain the physical prefix of the backend that served the call.
C6_LsLogical ==
    (last.op = "call" /\ last.attr = "ls" /\ ~last.raised) =>
        \A i \in 1..Len(last.value.l) :
            /\ startswith(last.value.l[i], <<"/">>)
            /\ ~contains(last.value.l[i], last.systems[last.served]._pfnprefix)

\* the configuration with input file:///data/in and output file:///data/out,
\* activated
LocalInOut ==
    /\ input = <<_expand_site(DataIn).url>>
    /\ output = <<_expand_site(DataOut).url>>
    /\ _systems # <<>>
    /\ _defaults # <<>>

\* the last operation was exists('/a.txt') on a handle that dispatches to the
\* active set, outside any default() block, after activate() with LocalInOut
ExistsOutside ==
    /\ LocalInOut
    /\ last.op = "call"
    /\ last.attr = "exists"
    /\ last.path = AFile
    /\ ~Inside(last.handle)
    /\ last.systems = _systems

\* the last operation was exists('/a.txt') inside a default() block entered
\* after activate() with LocalInOut
ExistsInside ==
    /\ LocalInOut
    /\ last.op = "call"
    /\ last.attr = "exists"
    /\ last.path = AFile
    /\ Inside(last.handle)
    /\ last.systems = _defaults

\* C7 as stated: with input file:///data/in and output file:///data/out
\* activated, exists() outside any default() block returns true for a file
\* present under the input location, whatever the output location holds.
C7_InputSeenOutside ==
    (ExistsOutside /\ ns_exists(last.fs0["Local"], InFile)) =>
        (~last.raised /\ last.value = VBool(TRUE))

\* C7 amended: outside any default() block, on a handle that dispatches to the
\* active set, exists() returns true exactly when the path is present under
\* the output location, whatever the input location holds; inside a default()
\* block it returns true exactly when the path is present under the input
\* location.
C7_OutputSeenOutside ==
    /\ ExistsOutside =>
          (~last.raised /\ last.value = VBool(ns_exists(last.fs0["Local"], OutFile)))
    /\ ExistsInside =>
          (~last.raised /\ last.value = VBool(ns_exists(last.fs0["Local"], InFile)))

\* C7 witness: exists('/a.txt') outside any default() block returned false
\* while the file was present under the input location only
C7_Witness ==
    /\ ExistsOutside
    /\ ns_exists(last.fs0["Local"], InFile)
    /\ ~ns_exists(last.fs0["Local"], OutFile)
    /\ ~last.raised
    /\ last.value = VBool(FALSE)

\* the directory the last call names exists under backend j before the call
DirectoryExists(j) ==
    ns_isdir(last.fs0[last.systems[j].cls],
             entry(last.systems[j], lfn2pfn(last.systems[j], last.path)))

\* C8: makedirs() on a path whose directory already exists under the backends
\* of the set returns without error and leaves every storage system unchanged.
C8_MakedirsIdempotent ==
    (/\ last.op = "call"
     /\ last.attr = "makedirs"
     /\ last.systems # <<>>
     /\ \A j \in 1..Len(last.systems) : DirectoryExists(j)) =>
        (~last.raised /\ fs = last.fs0)

\* the URLs of the universe and of the configuration
Urls ==
    {DataIn, DataOut, ChirpUrl, HdfsUrl, SrmUrl, RootUrl, SiteUrl}
        \cup {input[i] : i \in 1..Len(input)} \cup {output[i] : i \in 1..Len(output)}

\* a URL that matches the grammar and whose server is not a site label
Concrete(url) == url_re(url).matched /\ ~site_re(url_re(url).server)

\* C9: expanding an already expanded concrete URL changes nothing.
C9_ExpandIdempotent ==
    \A url \in Urls :
        Concrete(url) =>
            /\ ~_expand_site(url).raised
            /\ _expand_site(_expand_site(url).url).url = _expand_site(url).url

\* a direction with URLs, none of which has a supported protocol
Unsupported(urls) ==
    /\ urls # <<>>
    /\ \A i \in 1..Len(urls) : url_re(urls[i]).protocol \notin Supported

\* C10: when every URL of a direction has an unsupported protocol, activate()
\* itself raises.
C10_ActivateRaises ==
    (last.op = "activate" /\ (Unsupported(input) \/ Unsupported(output))) =>
        last.raised

\* the path the last call names does not exist under backend j before the call
Missing(j) ==
    ~ns_exists(last.fs0[last.systems[j].cls],
               entry(last.systems[j], lfn2pfn(last.systems[j], last.path)))

\* C11: getsize, isdir, isfile, ls and remove on a path that does not exist
\* raise in every backend, SRM getsize excepted, so that a Registry with only
\* that backend raises the no-working-backend error.
C11_MissingPathRaises ==
    (/\ last.op = "call"
     /\ last.attr \in {"getsize", "isdir", "isfile", "ls", "remove"}
     /\ Len(last.systems) = 1
     /\ Missing(1)
     /\ ~(last.systems[1].cls = "SRM" /\ last.attr = "getsize")) =>
        last.raised

\* C12: every activate() that returns builds the same ordered active set and
\* the same ordered default set as the first one, also after preprocess calls
\* with shuffling enabled.
C12_SameOrder ==
    (last.op = "activate" /\ ~last.raised /\ history.first.set) =>
        /\ _systems = history.first.systems
        /\ _defaults = history.first.defaults

\* C13: preprocess hands out the output list as parameters['output'], and as
\* parameters['input'] the output list when merge is true and the input list
\* otherwise; with shuffle-inputs false and merge false that is the input list
\* in its configured order; the lists are permutations of the configured ones.
C13_PreprocessLists ==
    last.op = "preprocess" =>
        /\ last.parameters.set
        /\ last.parameters.output = output
        /\ last.parameters.input = (IF last.merge THEN output ELSE input)
        /\ (~flags.shuffle_inputs /\ ~last.merge) =>
                last.parameters.input = history.input0
        /\ input \in shuffle(history.input0)
        /\ output \in shuffle(history.output0)

\* C13 witness: shuffle-inputs is false, the output list has been shuffled,
\* and preprocess(merge=False) handed out the two configured input URLs in
\* their configured order
C13_Witness ==
    /\ last.op = "preprocess"
    /\ ~last.merge
    /\ ~flags.shuffle_inputs
    /\ output # history.output0
    /\ Len(history.input0) = 2
    /\ last.parameters.input = history.input0

\* the positions in input + output of the 'file' URLs under which the file
\* asked for last is a regular file
LocalHits ==
    {i \in 1..Len(input \o output) :
        /\ url_re((input \o output)[i]).protocol = Proto("file")
        /\ ns_isfile(last.fs0["Local"],
                     Comps(join(url_re((input \o output)[i]).path, last.path)))}

\* C14: local(filename) returns join(path, filename) for the first URL, input
\* URLs before output URLs, whose protocol is 'file' and under which the file
\* exists, and raises the local-access error exactly when there is none.
C14_LocalFirstMatch ==
    last.op = "local" =>
        /\ last.raised <=> LocalHits = {}
        /\ last.raised => last.error = "IOError"
        /\ \A i \in LocalHits :
              (\A j \in LocalHits : i <= j) =>
                 last.value = VStr(join(url_re((input \o output)[i]).path, last.path))

\* C14 witness: the file is under two 'file' URLs, neither of them the first
\* URL of the scan, and local() returned a path
C14_Witness ==
    /\ last.op = "local"
    /\ ~last.raised
    /\ Cardinality(LocalHits) = 2
    /\ 1 \notin LocalHits
    /\ last.value.s # <<>>

\* the lcg commands the SRM backend runs
Verbs == {"ls", "ls -l", "del"}

\* the lcg command backend j of the last call runs for verb, on the storage and
\* with the utilities as they were for that call
Command(j, verb) ==
    lcg(verb, last.fs0["SRM"], lfn2pfn(last.systems[j], last.path),
        entry(last.systems[j], lfn2pfn(last.systems[j], last.path)), last.env)

\* the exit status of that command
ExitStatus(j, verb) == Command(j, verb).returncode

\* what SRM.execute makes of the finished command p with and without `safe`
SafeTolerates(p) ==
    /\ ~execute_end(p, last.fs0["SRM"], TRUE, last.env).raised
    /\ execute_end(p, last.fs0["SRM"], FALSE, last.env).raised <=> p.returncode # 0
    /\ p.returncode # 0 =>
          execute_end(p, last.fs0["SRM"], FALSE, last.env).error = "IOError"

\* C15: an SRM command run "safe" does not raise on a nonzero exit status, so
\* SRM remove returns normally whatever the exit status; a command run without
\* the flag raises IOError on every nonzero exit status.
C15_SafeFlag ==
    (last.op = "call" /\ last.env.srm # "notools") =>
        /\ \A j \in 1..Len(last.systems) : \A verb \in Verbs :
              last.systems[j].cls = "SRM" => SafeTolerates(Command(j, verb))
        /\ (/\ last.attr = "remove"
            /\ last.systems # <<>>
            /\ last.systems[1].cls = "SRM") =>
                 (~last.raised /\ last.served = 1)

\* C15 witness: SRM remove, the del command exited nonzero, and the call
\* returned from the SRM backend
C15_Witness ==
    /\ last.op = "call"
    /\ last.attr = "remove"
    /\ last.systems # <<>>
    /\ last.systems[1].cls = "SRM"
    /\ last.env.srm = "fail"
    /\ ExitStatus(1, "del") # 0
    /\ ~last.raised
    /\ last.served = 1

\* C16: the tags issued are 1, 2, 3, ... in order, never more than max of
\* them, and obtain hands back fewer than num tasks only at the maximum.
C16_SequentialTags ==
    /\ ledger.issued = [k \in 1..Len(ledger.issued) |-> Str(k)]
    /\ Len(ledger.issued) <= job.max
    /\ job.id = Len(ledger.issued)
    /\ (last.op = "obtain" /\ ~last.raised) =>
          /\ Len(last.tasks) <= last.num
          /\ Len(last.tasks) < last.num => job.id = job.max

\* C16 witness: obtain(2) handed back one task, the third and last one
C16_Witness ==
    /\ last.op = "obtain"
    /\ last.num = 2
    /\ last.tasks = <<Str(3)>>
    /\ job.max = 3
    /\ Len(ledger.issued) = 3

\* how often a tag was released with a status
Times(tag, status) == CopiesIn(<<tag, status>>, ledger.released)

\* the number of releases with status zero
ZeroReleases ==
    BagCardinality([e \in {x \in BagToSet(ledger.released) : x[2] = 0} |->
                       ledger.released[e]])

\* no task was released more than once
ReleasedOnce == \A tag \in Tags : Times(tag, 0) + Times(tag, 1) <= 1

\* C20: no tag is issued twice, also after a release with nonzero status; so if
\* no task is released twice, after a release with nonzero status done() is
\* false and work_left() > 0 from then on; and work_left() is max minus the
\* number of releases with status zero.
C20_FailedTaskIsLost ==
    /\ \A i, j \in 1..Len(ledger.issued) : i # j => ledger.issued[i] # ledger.issued[j]
    /\ (ReleasedOnce /\ \E tag \in Tags : Times(tag, 1) > 0) =>
          (~done(job) /\ work_left(job) > 0)
    /\ work_left(job) = job.max - ZeroReleases

\* C20 witness: every task was issued and released once, one of them with a
\* nonzero status; nothing runs, obtain has nothing left to issue, and work is
\* left all the same
C20_Witness ==
    /\ job.max = 3
    /\ job.id = job.max
    /\ job.running = 0
    /\ ReleasedOnce
    /\ \A tag \in Tags : Times(tag, 0) + Times(tag, 1) = 1
    /\ \E tag \in Tags : Times(tag, 1) > 0
    /\ ~done(job)
    /\ work_left(job) > 0
    /\ last.op = "obtain"
    /\ last.tasks = <<>>

\* C17 as stated: whatever the interleaving of the default() blocks of two
\* threads on one handle, once all of them are left the handle dispatches to
\* the set it dispatched to before the first was entered.
C17_AnyInterleaving ==
    (last.op = "exit" /\ last.closed) => get_systems(last.handle) = last.base

\* C17 amended: that holds when no block was left while a block entered later
\* on the same handle was still open, that is for blocks one after the other
\* or properly nested.
C17_NestedBlocks ==
    (last.op = "exit" /\ last.closed /\ ~last.crossed) =>
        get_systems(last.handle) = last.base

\* C17 witness: two blocks were open on one handle at once, the later one was
\* left first, and after both the handle is back on the non-empty set from
\* before, which is not the default set
C17_Witness ==
    /\ last.op = "exit"
    /\ last.closed
    /\ ~last.crossed
    /\ last.peak = 2
    /\ last.base # <<>>
    /\ last.base # last.dflt
    /\ get_systems(last.handle) = last.base

\* C18: outside any default() block every master handle dispatches to the set
\* the most recent activate() has built, also a handle that entered and left a
\* default() block before that activate().
C18_HandlesFollowActivate ==
    \A h \in Handles : ~Inside(h) => get_systems(h) = _systems

\* exists(path) asked right after the last call, of the same set, with the
\* external systems as they were for that call
ExistsNext == switch(last.systems, 1, "exists", last.path, fs, last.env, <<>>)

\* the last operation was a remove that returned
Removed == last.op = "call" /\ last.attr = "remove" /\ ~last.raised

\* C19 as stated: after a remove that returned, exists on the same set returns
\* False, whatever the backends of the set.
C19_RemovedIsGone ==
    Removed => (~ExistsNext.raised /\ ExistsNext.value = VBool(FALSE))

\* C19 amended: that holds when the first backend of the set served the
\* remove and, if it is an SRM backend, its del command exited with status 0.
C19_RemovedByFirst ==
    (/\ Removed
     /\ last.served = 1
     /\ (last.systems[1].cls = "SRM" => ExitStatus(1, "del") = 0)) =>
        (~ExistsNext.raised /\ ExistsNext.value = VBool(FALSE) /\ ExistsNext.served = 1)

\* C19 witness: the first of two backends removed a file that was there, and
\* exists now answers False
C19_Witness ==
    /\ Removed
    /\ last.served = 1
    /\ Len(last.systems) = 2
    /\ ~Missing(1)
    /\ ~ExistsNext.raised
    /\ ExistsNext.value = VBool(FALSE)

====
